---- MODULE Spec2Model ----
(***************************************************************************)
(* Model of the wgpu-native device entry points (src/src/device.rs): the   *)
(* lock-guarded handle registries, the command-buffer lifecycle and the    *)
(* resource creation calls, each entry point run by a caller thread and    *)
(* split into steps at the points where it can block on a registry lock.   *)
(***************************************************************************)
EXTENDS Integers, Sequences, FiniteSets, TLC

\* Bounds of the model.
MaxCalls == 3
MaxPipeCalls == 2
MaxLen == 2

Threads == {"t1", "t2", "t3"}

Registries ==
  {"device", "bind_group_layout", "pipeline_layout", "shader_module",
   "blend_state", "depth_stencil_state", "attachment_state",
   "render_pipeline", "command_buffer"}

VARIABLES
  items,          \* registry -> set of live entries [id, val, serial]
  nextId,         \* registry -> next handle value the registry issues
  takenLog,       \* registry -> sequence of the entries removed by take
  held,           \* thread -> sequence of <<registry, mode>> guards it holds
  pc,             \* thread -> position inside its current entry point
  call,           \* thread -> arguments, locals and result of its call
  com_allocator,  \* Device.com_allocator of the device
  hwLog,          \* command buffers received by queue_group.queues[0]
  ncompleted,     \* how many submissions of hwLog the backend has completed
  ncalls,         \* number of entry-point calls made so far
  policy          \* admission policy of the registry locks

vars ==
  <<items, nextId, takenLog, held, pc, call, com_allocator, hwLog,
    ncompleted, ncalls, policy>>

----
\* Registry<T>

Entry(id, val, serial) == [id |-> id, val |-> val, serial |-> serial]

LiveIn(its, h) == \E e \in its : e.id = h

Live(r, h) == LiveIn(items[r], h)

GetIn(its, h) == (CHOOSE e \in its : e.id = h).val

Get(r, h) == GetIn(items[r], h)

TakeItems(its, h) == {e \in its : e.id # h}

RegisterId(next) == next

RegisterItems(its, next, val) == its \cup {Entry(RegisterId(next), val, next)}

HandleChoices(r) == 1..nextId[r]

HandleSeqs(r) ==
  UNION {[1..n -> HandleChoices(r)] : n \in 0..MaxLen}

\* Registry locks: shared for lock()/get, exclusive for register/take/get_mut.
\* Whether a reader is admitted while a writer waits is left open by the
\* registry's contract and differs between reader-writer locks, so it is a
\* choice of the build (policy): with "ReaderPref" only a writer that holds
\* the lock keeps readers out, with "WriterPref" a waiting writer does too.

Holds(t, r, m) == \E k \in 1..Len(held[t]) : held[t][k] = <<r, m>>

Readers(r) == {t \in Threads : Holds(t, r, "R")}

Writers(r) == {t \in Threads : Holds(t, r, "W")}

NoLock == <<"none", "none">>

Wants(t) ==
  CASE pc[t] = "cb_get_mut" -> <<"device", "W">>
    [] pc[t] = "cb_register" -> <<"command_buffer", "W">>
    [] pc[t] = "qs_get_mut" -> <<"device", "W">>
    [] pc[t] = "qs_take" -> <<"command_buffer", "W">>
    [] pc[t] = "bgl_lock" -> <<"device", "R">>
    [] pc[t] = "bgl_register" -> <<"bind_group_layout", "W">>
    [] pc[t] = "pl_lock_bgl" -> <<"bind_group_layout", "R">>
    [] pc[t] = "pl_lock_device" -> <<"device", "R">>
    [] pc[t] = "pl_register" -> <<"pipeline_layout", "W">>
    [] pc[t] = "bs_register" -> <<"blend_state", "W">>
    [] pc[t] = "dss_register" -> <<"depth_stencil_state", "W">>
    [] pc[t] = "as_register" -> <<"attachment_state", "W">>
    [] pc[t] = "sm_lock" -> <<"device", "R">>
    [] pc[t] = "sm_register" -> <<"shader_module", "W">>
    [] pc[t] = "rp_lock_device" -> <<"device", "R">>
    [] pc[t] = "rp_lock_layout" -> <<"pipeline_layout", "R">>
    [] pc[t] = "rp_lock_shaders" -> <<"shader_module", "R">>
    [] pc[t] = "rp_lock_blend" -> <<"blend_state", "R">>
    [] pc[t] = "rp_lock_depth" -> <<"depth_stencil_state", "R">>
    [] pc[t] = "rp_lock_attachment" -> <<"attachment_state", "R">>
    [] pc[t] = "rp_register" -> <<"render_pipeline", "W">>
    [] OTHER -> NoLock

WaitingWriters(r) == {t \in Threads : Wants(t) = <<r, "W">>}

CanRead(r) ==
  /\ Writers(r) = {}
  /\ policy = "WriterPref" => WaitingWriters(r) = {}

CanWrite(r) == Writers(r) = {} /\ Readers(r) = {}

CanAcquire(w) ==
  CASE w[2] = "R" -> CanRead(w[1])
    [] w[2] = "W" -> CanWrite(w[1])
    [] OTHER -> TRUE

----
\* CommandAllocator

InFlight == {hwLog[k] : k \in (ncompleted + 1)..Len(hwLog)}

Reclaimable(a, inflight) == {b \in a.pending : b \notin inflight}

AllocChoices(a, inflight) ==
  LET avail == a.available \cup Reclaimable(a, inflight)
  IN  IF avail # {} THEN avail ELSE {a.created + 1}

AllocAfter(a, inflight, b) ==
  LET avail == a.available \cup Reclaimable(a, inflight)
  IN  IF avail # {}
      THEN [a EXCEPT !.available = avail \ {b},
                     !.pending = @ \ Reclaimable(a, inflight)]
      ELSE [a EXCEPT !.created = b]

AllocSubmit(a, b) == [a EXCEPT !.pending = @ \cup {b}]

----
\* Calls

NoDesc ==
  [code |-> "none", layout |-> 0, modules |-> <<>>, blend_state |-> <<>>,
   depth_stencil_state |-> 0, attachment_state |-> 0]

\* Option::None of a shader entry point.
NoModule == <<"None">>

NoParts ==
  [layout |-> "None", vertex |-> NoModule, fragment |-> NoModule,
   targets |-> <<>>, depth_stencil |-> "None", attachments |-> "None"]

NoCall ==
  [op |-> "none", device_id |-> 0, ids |-> <<>>, stages |-> <<>>,
   i |-> 0, vals |-> <<>>, cmd_buf |-> 0, took |-> <<>>, nsub |-> 0,
   nhand |-> 0, outcome |-> "none", handle |-> 0, registered |-> {},
   backend |-> <<>>, desc |-> NoDesc, parts |-> NoParts]

NewCall(op, d) ==
  [NoCall EXCEPT !.op = op, !.device_id = d, !.outcome = "running"]

CanCall(t) == pc[t] \in {"idle", "done"} /\ ncalls < MaxCalls

CanCallPipe(t) == pc[t] \in {"idle", "done"} /\ ncalls < MaxPipeCalls

Running(t) == pc[t] \notin {"idle", "done"}

\* A guard bound to a local of the call: lock() gives shared access and
\* get_mut() exclusive access, each kept until the call returns.
GuardDropped(hs, r) == hs

GuardExclusive(hs, r) == Append(hs, <<r, "W">>)

Guard(hs, r) == Append(hs, <<r, "R">>)

CbDeviceGuardDropped(hs) == hs

CbDeviceGuard(hs) == Append(hs, <<"device", "W">>)

QsDeviceGuardDropped(hs) == hs

QsDeviceGuard(hs) == Append(hs, <<"device", "W">>)

\* Returning from the entry point drops the guards of its locals.
GuardsLeaked(hs) == hs

GuardsAfterReturn(hs) == <<>>

\* A fatal path ends the call; unwinding drops every guard it holds.
FatalWith(t, c) ==
  /\ call' = [call EXCEPT ![t] = [c EXCEPT !.outcome = "fatal", !.cmd_buf = 0]]
  /\ pc' = [pc EXCEPT ![t] = "done"]
  /\ held' = [held EXCEPT ![t] = <<>>]

Fatal(t) == FatalWith(t, call[t])

\* Result::unwrap() of a backend creation call.
UnwrapFailsNever(res) == FALSE

UnwrapFails(res) == res = "Err"

ReturnHandleOfDevice(id, device_id) == device_id

ReturnHandle(id, device_id) == id

----
\* wgpu_device_create_command_buffer

DeviceAfterAllocateOnCopy(a, inflight, b) == a

DeviceAfterAllocateKept(a, inflight, b) ==
  [AllocAfter(a, inflight, b) EXCEPT !.available = @ \cup {b}]

DeviceAfterAllocate(a, inflight, b) == AllocAfter(a, inflight, b)

CallCreateCommandBuffer(t) ==
  /\ CanCall(t)
  /\ \E d \in HandleChoices("device") :
       call' = [call EXCEPT ![t] = NewCall("create_command_buffer", d)]
  /\ pc' = [pc EXCEPT ![t] = "cb_get_mut"]
  /\ ncalls' = ncalls + 1
  /\ UNCHANGED <<items, nextId, takenLog, held, com_allocator, hwLog,
                 ncompleted, policy>>

CbGetMut(t) ==
  /\ pc[t] = "cb_get_mut"
  /\ CanWrite("device")
  /\ IF ~Live("device", call[t].device_id)
     THEN Fatal(t) /\ UNCHANGED com_allocator
     ELSE \E b \in AllocChoices(com_allocator, InFlight) :
            /\ com_allocator' = DeviceAfterAllocate(com_allocator, InFlight, b)
            /\ call' = [call EXCEPT ![t].cmd_buf = b]
            /\ held' = [held EXCEPT ![t] = CbDeviceGuard(@)]
            /\ pc' = [pc EXCEPT ![t] = "cb_register"]
  /\ UNCHANGED <<items, nextId, takenLog, hwLog, ncompleted, ncalls, policy>>

CbRegister(t) ==
  /\ pc[t] = "cb_register"
  /\ CanWrite("command_buffer")
  /\ items' = [items EXCEPT !["command_buffer"] =
                 RegisterItems(@, nextId["command_buffer"], call[t].cmd_buf)]
  /\ nextId' = [nextId EXCEPT !["command_buffer"] = @ + 1]
  /\ call' = [call EXCEPT
                ![t].handle = ReturnHandle(RegisterId(nextId["command_buffer"]),
                                           call[t].device_id),
                ![t].registered = @ \cup
                   {<<"command_buffer", nextId["command_buffer"]>>},
                ![t].vals = <<call[t].cmd_buf>>,
                ![t].cmd_buf = 0,
                ![t].outcome = "ok"]
  /\ held' = [held EXCEPT ![t] = GuardsAfterReturn(@)]
  /\ pc' = [pc EXCEPT ![t] = "done"]
  /\ UNCHANGED <<takenLog, com_allocator, hwLog, ncompleted, ncalls, policy>>

----
\* wgpu_queue_submit

NextHandleReversed(ids, i) == ids[Len(ids) + 1 - i]

NextHandle(ids, i) == ids[i]

SubmitFetchKeep(its, h) == its

SubmitFetch(its, h) == TakeItems(its, h)

HandBackAsAvailable(a, b) == [a EXCEPT !.available = @ \cup {b}]

HandBack(a, b) == AllocSubmit(a, b)

\* take() of a handle that names no live command buffer is fatal: the call
\* ends inside the loop, at that handle.
AfterStaleHandleSkipped(t) ==
  IF call[t].i < Len(call[t].ids)
  THEN /\ call' = [call EXCEPT ![t].i = @ + 1]
       /\ UNCHANGED <<pc, held>>
  ELSE /\ call' = [call EXCEPT ![t].outcome = "ok"]
       /\ pc' = [pc EXCEPT ![t] = "done"]
       /\ held' = [held EXCEPT ![t] = <<>>]

AfterStaleHandle(t) == Fatal(t)

CallQueueSubmit(t) ==
  /\ CanCall(t)
  /\ \E q \in HandleChoices("device"), ids \in HandleSeqs("command_buffer") :
       call' = [call EXCEPT ![t] =
                  [NewCall("queue_submit", q) EXCEPT !.ids = ids, !.i = 1]]
  /\ pc' = [pc EXCEPT ![t] = "qs_get_mut"]
  /\ ncalls' = ncalls + 1
  /\ UNCHANGED <<items, nextId, takenLog, held, com_allocator, hwLog,
                 ncompleted, policy>>

QsGetMut(t) ==
  /\ pc[t] = "qs_get_mut"
  /\ CanWrite("device")
  /\ IF ~Live("device", call[t].device_id)
     THEN Fatal(t)
     ELSE IF Len(call[t].ids) = 0
     THEN /\ call' = [call EXCEPT ![t].outcome = "ok"]
          /\ pc' = [pc EXCEPT ![t] = "done"]
          /\ UNCHANGED held
     ELSE /\ held' = [held EXCEPT ![t] = QsDeviceGuard(@)]
          /\ pc' = [pc EXCEPT ![t] = "qs_take"]
          /\ UNCHANGED call
  /\ UNCHANGED <<items, nextId, takenLog, com_allocator, hwLog, ncompleted,
                 ncalls, policy>>

QsTake(t) ==
  LET h == NextHandle(call[t].ids, call[t].i)
  IN  /\ pc[t] = "qs_take"
      /\ CanWrite("command_buffer")
      /\ IF ~Live("command_buffer", h)
         THEN AfterStaleHandle(t) /\ UNCHANGED <<items, takenLog>>
         ELSE /\ items' = [items EXCEPT !["command_buffer"] = SubmitFetch(@, h)]
              /\ takenLog' = [takenLog EXCEPT !["command_buffer"] =
                   Append(@, CHOOSE e \in items["command_buffer"] : e.id = h)]
              /\ call' = [call EXCEPT
                   ![t].cmd_buf = Get("command_buffer", h),
                   ![t].took = Append(@, <<h, Get("command_buffer", h)>>)]
              /\ pc' = [pc EXCEPT ![t] = "qs_submit_raw"]
              /\ UNCHANGED held
      /\ UNCHANGED <<nextId, com_allocator, hwLog, ncompleted, ncalls, policy>>

QsSubmitRaw(t) ==
  /\ pc[t] = "qs_submit_raw"
  /\ hwLog' = Append(hwLog, call[t].cmd_buf)
  /\ call' = [call EXCEPT ![t].nsub = @ + 1]
  /\ pc' = [pc EXCEPT ![t] = "qs_alloc_submit"]
  /\ UNCHANGED <<items, nextId, takenLog, held, com_allocator, ncompleted,
                 ncalls, policy>>

QsAllocSubmit(t) ==
  /\ pc[t] = "qs_alloc_submit"
  /\ com_allocator' = HandBack(com_allocator, call[t].cmd_buf)
  /\ IF call[t].i < Len(call[t].ids)
     THEN /\ call' = [call EXCEPT ![t].nhand = @ + 1, ![t].cmd_buf = 0,
                                  ![t].i = @ + 1]
          /\ pc' = [pc EXCEPT ![t] = "qs_take"]
          /\ UNCHANGED held
     ELSE /\ call' = [call EXCEPT ![t].nhand = @ + 1, ![t].cmd_buf = 0,
                                  ![t].outcome = "ok"]
          /\ pc' = [pc EXCEPT ![t] = "done"]
          /\ held' = [held EXCEPT ![t] = GuardsAfterReturn(@)]
  /\ UNCHANGED <<items, nextId, takenLog, hwLog, ncompleted, ncalls, policy>>

----
\* Registering the result of a creation call: the exclusive access of
\* register on the output registry, the new entry, and the return, which
\* drops every guard of the call.
RegisterResult(t, r, val) ==
  /\ CanWrite(r)
  /\ items' = [items EXCEPT ![r] = RegisterItems(@, nextId[r], val)]
  /\ nextId' = [nextId EXCEPT ![r] = @ + 1]
  /\ call' = [call EXCEPT
                ![t].handle = ReturnHandle(RegisterId(nextId[r]),
                                           call[t].device_id),
                ![t].registered = @ \cup {<<r, nextId[r]>>},
                ![t].outcome = "ok"]
  /\ held' = [held EXCEPT ![t] = GuardsAfterReturn(@)]
  /\ pc' = [pc EXCEPT ![t] = "done"]

----
\* wgpu_device_create_bind_group_layout

CallCreateBindGroupLayout(t) ==
  /\ CanCall(t)
  /\ \E d \in HandleChoices("device") :
       call' = [call EXCEPT ![t] = NewCall("create_bind_group_layout", d)]
  /\ pc' = [pc EXCEPT ![t] = "bgl_lock"]
  /\ ncalls' = ncalls + 1
  /\ UNCHANGED <<items, nextId, takenLog, held, com_allocator, hwLog,
                 ncompleted, policy>>

BglLock(t) ==
  /\ pc[t] = "bgl_lock"
  /\ CanRead("device")
  /\ IF ~Live("device", call[t].device_id)
     THEN Fatal(t)
     ELSE /\ held' = [held EXCEPT ![t] = Guard(@, "device")]
          /\ call' = [call EXCEPT
               ![t].backend = Append(@, <<"create_descriptor_set_layout", "Ok">>),
               ![t].vals = <<"descriptor_set_layout">>]
          /\ pc' = [pc EXCEPT ![t] = "bgl_register"]
  /\ UNCHANGED <<items, nextId, takenLog, com_allocator, hwLog, ncompleted,
                 ncalls, policy>>

BglRegister(t) ==
  /\ pc[t] = "bgl_register"
  /\ RegisterResult(t, "bind_group_layout", call[t].vals[1])
  /\ UNCHANGED <<takenLog, com_allocator, hwLog, ncompleted, ncalls, policy>>

----
\* wgpu_device_create_pipeline_layout

CallCreatePipelineLayout(t) ==
  /\ CanCall(t)
  /\ \E d \in HandleChoices("device"),
        ids \in HandleSeqs("bind_group_layout") :
       call' = [call EXCEPT ![t] =
                  [NewCall("create_pipeline_layout", d) EXCEPT !.ids = ids]]
  /\ pc' = [pc EXCEPT ![t] = "pl_lock_bgl"]
  /\ ncalls' = ncalls + 1
  /\ UNCHANGED <<items, nextId, takenLog, held, com_allocator, hwLog,
                 ncompleted, policy>>

PlLockBgl(t) ==
  /\ pc[t] = "pl_lock_bgl"
  /\ CanRead("bind_group_layout")
  /\ IF \E k \in 1..Len(call[t].ids) :
          ~Live("bind_group_layout", call[t].ids[k])
     THEN Fatal(t)
     ELSE /\ held' = [held EXCEPT
               ![t] = Guard(@, "bind_group_layout")]
          /\ call' = [call EXCEPT ![t].vals =
               [k \in 1..Len(call[t].ids) |->
                  Get("bind_group_layout", call[t].ids[k])]]
          /\ pc' = [pc EXCEPT ![t] = "pl_lock_device"]
  /\ UNCHANGED <<items, nextId, takenLog, com_allocator, hwLog, ncompleted,
                 ncalls, policy>>

PlLockDevice(t) ==
  /\ pc[t] = "pl_lock_device"
  /\ CanRead("device")
  /\ IF ~Live("device", call[t].device_id)
     THEN Fatal(t)
     ELSE /\ held' = [held EXCEPT ![t] = Guard(@, "device")]
          /\ call' = [call EXCEPT
               ![t].backend = Append(@, <<"create_pipeline_layout", "Ok">>)]
          /\ pc' = [pc EXCEPT ![t] = "pl_register"]
  /\ UNCHANGED <<items, nextId, takenLog, com_allocator, hwLog, ncompleted,
                 ncalls, policy>>

PlRegister(t) ==
  /\ pc[t] = "pl_register"
  /\ RegisterResult(t, "pipeline_layout", <<"pipeline_layout", call[t].vals>>)
  /\ UNCHANGED <<takenLog, com_allocator, hwLog, ncompleted, ncalls, policy>>

----
\* wgpu_device_create_blend_state, wgpu_device_create_depth_stencil_state,
\* wgpu_device_create_attachment_state

CallCreateBlendState(t) ==
  /\ CanCallPipe(t)
  /\ \E d \in HandleChoices("device") :
       call' = [call EXCEPT ![t] = NewCall("create_blend_state", d)]
  /\ pc' = [pc EXCEPT ![t] = "bs_register"]
  /\ ncalls' = ncalls + 1
  /\ UNCHANGED <<items, nextId, takenLog, held, com_allocator, hwLog,
                 ncompleted, policy>>

BsRegisterWithDevice(t) ==
  /\ pc[t] = "bs_register"
  /\ CanRead("device")
  /\ IF ~Live("device", call[t].device_id)
     THEN Fatal(t) /\ UNCHANGED <<items, nextId>>
     ELSE RegisterResult(t, "blend_state", "blend_state")
  /\ UNCHANGED <<takenLog, com_allocator, hwLog, ncompleted, ncalls, policy>>

BsRegister(t) ==
  /\ pc[t] = "bs_register"
  /\ RegisterResult(t, "blend_state", "blend_state")
  /\ UNCHANGED <<takenLog, com_allocator, hwLog, ncompleted, ncalls, policy>>

CallCreateDepthStencilState(t) ==
  /\ CanCallPipe(t)
  /\ \E d \in HandleChoices("device") :
       call' = [call EXCEPT ![t] = NewCall("create_depth_stencil_state", d)]
  /\ pc' = [pc EXCEPT ![t] = "dss_register"]
  /\ ncalls' = ncalls + 1
  /\ UNCHANGED <<items, nextId, takenLog, held, com_allocator, hwLog,
                 ncompleted, policy>>

DssRegisterIntoBlend(t) ==
  /\ pc[t] = "dss_register"
  /\ RegisterResult(t, "blend_state", "depth_stencil_state")
  /\ UNCHANGED <<takenLog, com_allocator, hwLog, ncompleted, ncalls, policy>>

DssRegister(t) ==
  /\ pc[t] = "dss_register"
  /\ RegisterResult(t, "depth_stencil_state", "depth_stencil_state")
  /\ UNCHANGED <<takenLog, com_allocator, hwLog, ncompleted, ncalls, policy>>

CallCreateAttachmentState(t) ==
  /\ CanCallPipe(t)
  /\ \E d \in HandleChoices("device") :
       call' = [call EXCEPT ![t] = NewCall("create_attachment_state", d)]
  /\ pc' = [pc EXCEPT ![t] = "as_register"]
  /\ ncalls' = ncalls + 1
  /\ UNCHANGED <<items, nextId, takenLog, held, com_allocator, hwLog,
                 ncompleted, policy>>

AsRegister(t) ==
  /\ pc[t] = "as_register"
  /\ RegisterResult(t, "attachment_state", "attachment_state")
  /\ UNCHANGED <<takenLog, com_allocator, hwLog, ncompleted, ncalls, policy>>

----
\* wgpu_device_create_shader_module

ShaderCodes == {"spirv_a", "spirv_b"}

BackendResults == {"Ok", "Err"}

CallCreateShaderModule(t) ==
  /\ CanCallPipe(t)
  /\ \E d \in HandleChoices("device"), code \in ShaderCodes :
       call' = [call EXCEPT ![t] =
                  [NewCall("create_shader_module", d) EXCEPT
                     !.desc.code = code]]
  /\ pc' = [pc EXCEPT ![t] = "sm_lock"]
  /\ ncalls' = ncalls + 1
  /\ UNCHANGED <<items, nextId, takenLog, held, com_allocator, hwLog,
                 ncompleted, policy>>

SmLock(t) ==
  /\ pc[t] = "sm_lock"
  /\ CanRead("device")
  /\ IF ~Live("device", call[t].device_id)
     THEN Fatal(t)
     ELSE \E res \in BackendResults :
            LET c == [call[t] EXCEPT
                        !.backend = Append(@, <<"create_shader_module", res>>)]
            IN  IF UnwrapFails(res)
                THEN FatalWith(t, c)
                ELSE /\ call' = [call EXCEPT ![t] =
                          [c EXCEPT !.vals =
                             <<<<"shader_module", c.desc.code>>>>]]
                     /\ held' = [held EXCEPT
                          ![t] = Guard(@, "device")]
                     /\ pc' = [pc EXCEPT ![t] = "sm_register"]
  /\ UNCHANGED <<items, nextId, takenLog, com_allocator, hwLog, ncompleted,
                 ncalls, policy>>

SmRegister(t) ==
  /\ pc[t] = "sm_register"
  /\ RegisterResult(t, "shader_module", call[t].vals[1])
  /\ UNCHANGED <<takenLog, com_allocator, hwLog, ncompleted, ncalls, policy>>

----
\* wgpu_device_create_render_pipeline

ShaderStages == {"Vertex", "Fragment", "Compute"}

StageSeqs == UNION {[1..n -> ShaderStages] : n \in 0..MaxLen}

StageRejectedNever(stage) == FALSE

StageRejected(stage) == stage = "Compute"

\* The stage at which the loop over the stages ends the call (0 if none):
\* the first one whose module handle is not live or whose tag is rejected.
FirstBadStage(stages, modules) ==
  LET bad == {k \in 1..Len(stages) :
                \/ ~Live("shader_module", modules[k])
                \/ StageRejected(stages[k])}
  IN  IF bad = {} THEN 0 ELSE CHOOSE k \in bad : \A j \in bad : k <= j

\* The entry the loop leaves in `vertex` or `fragment`: the last stage that
\* carries the tag (0 if none).
FirstStage(stages, tag) ==
  LET tagged == {k \in 1..Len(stages) : stages[k] = tag}
  IN  IF tagged = {} THEN 0 ELSE CHOOSE k \in tagged : \A j \in tagged : k <= j

LastStage(stages, tag) ==
  LET tagged == {k \in 1..Len(stages) : stages[k] = tag}
  IN  IF tagged = {} THEN 0 ELSE CHOOSE k \in tagged : \A j \in tagged : j <= k

EntryModule(stages, modules, tag) ==
  IF LastStage(stages, tag) = 0
  THEN NoModule
  ELSE Get("shader_module", modules[LastStage(stages, tag)])

\* The backend creation calls of one render-pipeline creation: the render
\* pass built from the attachments, then the graphics pipeline.
RenderPipelineBackendCallsMerged(res) == <<<<"create_graphics_pipeline", res>>>>

RenderPipelineBackendCalls(res) ==
  <<<<"create_render_pass", "Ok">>, <<"create_graphics_pipeline", res>>>>

CallCreateRenderPipeline(t) ==
  /\ CanCallPipe(t)
  /\ \E d \in HandleChoices("device"), stages \in StageSeqs :
       call' = [call EXCEPT ![t] =
                  [NewCall("create_render_pipeline", d) EXCEPT
                     !.stages = stages]]
  /\ pc' = [pc EXCEPT ![t] = "rp_lock_device"]
  /\ ncalls' = ncalls + 1
  /\ UNCHANGED <<items, nextId, takenLog, held, com_allocator, hwLog,
                 ncompleted, policy>>

RpLockDevice(t) ==
  /\ pc[t] = "rp_lock_device"
  /\ CanRead("device")
  /\ IF ~Live("device", call[t].device_id)
     THEN Fatal(t)
     ELSE /\ held' = [held EXCEPT ![t] = Guard(@, "device")]
          /\ pc' = [pc EXCEPT ![t] = "rp_lock_layout"]
          /\ UNCHANGED call
  /\ UNCHANGED <<items, nextId, takenLog, com_allocator, hwLog, ncompleted,
                 ncalls, policy>>

RpLockLayout(t) ==
  /\ pc[t] = "rp_lock_layout"
  /\ CanRead("pipeline_layout")
  /\ \E h \in HandleChoices("pipeline_layout") :
       LET c == [call[t] EXCEPT !.desc.layout = h]
       IN  IF ~Live("pipeline_layout", h)
           THEN FatalWith(t, c)
           ELSE /\ call' = [call EXCEPT ![t] =
                     [c EXCEPT !.parts.layout = Get("pipeline_layout", h)]]
                /\ held' = [held EXCEPT
                     ![t] = Guard(@, "pipeline_layout")]
                /\ pc' = [pc EXCEPT ![t] = "rp_lock_shaders"]
  /\ UNCHANGED <<items, nextId, takenLog, com_allocator, hwLog, ncompleted,
                 ncalls, policy>>

RpLockShaders(t) ==
  /\ pc[t] = "rp_lock_shaders"
  /\ CanRead("shader_module")
  /\ \E modules \in [1..Len(call[t].stages) -> HandleChoices("shader_module")] :
       LET stages == call[t].stages
           bad == FirstBadStage(stages, modules)
           c == [call[t] EXCEPT !.desc.modules = modules, !.i = bad]
       IN  IF bad # 0 \/ LastStage(stages, "Vertex") = 0
           THEN FatalWith(t, c)
           ELSE /\ call' = [call EXCEPT ![t] =
                     [c EXCEPT
                        !.parts.vertex =
                           EntryModule(stages, modules, "Vertex"),
                        !.parts.fragment =
                           EntryModule(stages, modules, "Fragment")]]
                /\ held' = [held EXCEPT
                     ![t] = Guard(@, "shader_module")]
                /\ pc' = [pc EXCEPT ![t] = "rp_lock_blend"]
  /\ UNCHANGED <<items, nextId, takenLog, com_allocator, hwLog, ncompleted,
                 ncalls, policy>>

RpLockBlend(t) ==
  /\ pc[t] = "rp_lock_blend"
  /\ CanRead("blend_state")
  /\ \E ids \in HandleSeqs("blend_state") :
       LET c == [call[t] EXCEPT !.desc.blend_state = ids]
       IN  IF \E k \in 1..Len(ids) : ~Live("blend_state", ids[k])
           THEN FatalWith(t, c)
           ELSE /\ call' = [call EXCEPT ![t] =
                     [c EXCEPT !.parts.targets =
                        [k \in 1..Len(ids) |-> Get("blend_state", ids[k])]]]
                /\ held' = [held EXCEPT
                     ![t] = Guard(@, "blend_state")]
                /\ pc' = [pc EXCEPT ![t] = "rp_lock_depth"]
  /\ UNCHANGED <<items, nextId, takenLog, com_allocator, hwLog, ncompleted,
                 ncalls, policy>>

RpLockDepth(t) ==
  /\ pc[t] = "rp_lock_depth"
  /\ CanRead("depth_stencil_state")
  /\ \E h \in HandleChoices("depth_stencil_state") :
       LET c == [call[t] EXCEPT !.desc.depth_stencil_state = h]
       IN  IF ~Live("depth_stencil_state", h)
           THEN FatalWith(t, c)
           ELSE /\ call' = [call EXCEPT ![t] =
                     [c EXCEPT !.parts.depth_stencil =
                        Get("depth_stencil_state", h)]]
                /\ held' = [held EXCEPT
                     ![t] = Guard(@, "depth_stencil_state")]
                /\ pc' = [pc EXCEPT ![t] = "rp_lock_attachment"]
  /\ UNCHANGED <<items, nextId, takenLog, com_allocator, hwLog, ncompleted,
                 ncalls, policy>>

RpLockAttachment(t) ==
  /\ pc[t] = "rp_lock_attachment"
  /\ CanRead("attachment_state")
  /\ \E h \in HandleChoices("attachment_state"), res \in BackendResults :
       LET c == [call[t] EXCEPT !.desc.attachment_state = h]
           built == [c EXCEPT
                       !.parts.attachments = Get("attachment_state", h),
                       !.backend = @ \o RenderPipelineBackendCalls(res)]
       IN  IF ~Live("attachment_state", h)
           THEN res = "Ok" /\ FatalWith(t, c)
           ELSE IF UnwrapFails(res)
           THEN FatalWith(t, built)
           ELSE /\ call' = [call EXCEPT ![t] = built]
                /\ held' = [held EXCEPT
                     ![t] = Guard(@, "attachment_state")]
                /\ pc' = [pc EXCEPT ![t] = "rp_register"]
  /\ UNCHANGED <<items, nextId, takenLog, com_allocator, hwLog, ncompleted,
                 ncalls, policy>>

RpRegister(t) ==
  /\ pc[t] = "rp_register"
  /\ RegisterResult(t, "render_pipeline", <<"render_pipeline", call[t].parts>>)
  /\ UNCHANGED <<takenLog, com_allocator, hwLog, ncompleted, ncalls, policy>>

\* The backend finishes executing the oldest submission of the queue.
BackendComplete ==
  /\ ncompleted < Len(hwLog)
  /\ ncompleted' = ncompleted + 1
  /\ UNCHANGED <<items, nextId, takenLog, held, pc, call, com_allocator,
                 hwLog, ncalls, policy>>

----
\* Specifications

Init ==
  /\ items = [r \in Registries |->
                IF r = "device" THEN {Entry(1, "device", 1)} ELSE {}]
  /\ nextId = [r \in Registries |-> IF r = "device" THEN 2 ELSE 1]
  /\ takenLog = [r \in Registries |-> <<>>]
  /\ held = [t \in Threads |-> <<>>]
  /\ pc = [t \in Threads |-> "idle"]
  /\ call = [t \in Threads |-> NoCall]
  /\ com_allocator = [available |-> {}, pending |-> {}, created |-> 0]
  /\ hwLog = <<>>
  /\ ncompleted = 0
  /\ ncalls = 0
  /\ policy \in {"ReaderPref", "WriterPref"}

CmdThreads == {"t1", "t2"}

NextCmd ==
  \/ \E t \in CmdThreads : CallCreateCommandBuffer(t)
  \/ \E t \in CmdThreads : CbGetMut(t)
  \/ \E t \in CmdThreads : CbRegister(t)
  \/ \E t \in CmdThreads : CallQueueSubmit(t)
  \/ \E t \in CmdThreads : QsGetMut(t)
  \/ \E t \in CmdThreads : QsTake(t)
  \/ \E t \in CmdThreads : QsSubmitRaw(t)
  \/ \E t \in CmdThreads : QsAllocSubmit(t)
  \/ BackendComplete

SpecCmd == Init /\ [][NextCmd]_vars

LayoutThreads == {"t1", "t2"}

DeviceWriterThreads == {"t3"}

NextLayout ==
  \/ \E t \in LayoutThreads : CallCreateBindGroupLayout(t)
  \/ \E t \in LayoutThreads : BglLock(t)
  \/ \E t \in LayoutThreads : BglRegister(t)
  \/ \E t \in LayoutThreads : CallCreatePipelineLayout(t)
  \/ \E t \in LayoutThreads : PlLockBgl(t)
  \/ \E t \in LayoutThreads : PlLockDevice(t)
  \/ \E t \in LayoutThreads : PlRegister(t)
  \/ \E t \in DeviceWriterThreads : CallCreateCommandBuffer(t)
  \/ \E t \in DeviceWriterThreads : CbGetMut(t)
  \/ \E t \in DeviceWriterThreads : CbRegister(t)

SpecLayout == Init /\ [][NextLayout]_vars

\* The state after the setup calls of a render-pipeline scenario: one
\* pipeline layout made of no bind-group layouts, one shader module, one
\* depth-stencil state and one attachment state are registered.
InitPipe ==
  /\ items = [r \in Registries |->
       CASE r = "device" -> {Entry(1, "device", 1)}
         [] r = "pipeline_layout" ->
              {Entry(1, <<"pipeline_layout", <<>>>>, 1)}
         [] r = "shader_module" ->
              {Entry(1, <<"shader_module", "spirv_a">>, 1)}
         [] r = "depth_stencil_state" -> {Entry(1, "depth_stencil_state", 1)}
         [] r = "attachment_state" -> {Entry(1, "attachment_state", 1)}
         [] OTHER -> {}]
  /\ nextId = [r \in Registries |-> Cardinality(items[r]) + 1]
  /\ takenLog = [r \in Registries |-> <<>>]
  /\ held = [t \in Threads |-> <<>>]
  /\ pc = [t \in Threads |-> "idle"]
  /\ call = [t \in Threads |-> NoCall]
  /\ com_allocator = [available |-> {}, pending |-> {}, created |-> 0]
  /\ hwLog = <<>>
  /\ ncompleted = 0
  /\ ncalls = 0
  /\ policy = "ReaderPref"

PipelineThreads == {"t1"}

ResourceThreads == {"t2"}

NextPipe ==
  \/ \E t \in ResourceThreads : CallCreateBlendState(t)
  \/ \E t \in ResourceThreads : BsRegister(t)
  \/ \E t \in ResourceThreads : CallCreateDepthStencilState(t)
  \/ \E t \in ResourceThreads : DssRegister(t)
  \/ \E t \in ResourceThreads : CallCreateAttachmentState(t)
  \/ \E t \in ResourceThreads : AsRegister(t)
  \/ \E t \in ResourceThreads : CallCreateShaderModule(t)
  \/ \E t \in ResourceThreads : SmLock(t)
  \/ \E t \in ResourceThreads : SmRegister(t)
  \/ \E t \in PipelineThreads : CallCreateRenderPipeline(t)
  \/ \E t \in PipelineThreads : RpLockDevice(t)
  \/ \E t \in PipelineThreads : RpLockLayout(t)
  \/ \E t \in PipelineThreads : RpLockShaders(t)
  \/ \E t \in PipelineThreads : RpLockBlend(t)
  \/ \E t \in PipelineThreads : RpLockDepth(t)
  \/ \E t \in PipelineThreads : RpLockAttachment(t)
  \/ \E t \in PipelineThreads : RpRegister(t)

SpecPipe == InitPipe /\ [][NextPipe]_vars

\* Every creation entry point, from the state after the setup calls: the
\* pipeline thread also creates bind-group layouts and pipeline layouts.
NextCreate ==
  \/ NextPipe
  \/ \E t \in PipelineThreads : CallCreateBindGroupLayout(t)
  \/ \E t \in PipelineThreads : BglLock(t)
  \/ \E t \in PipelineThreads : BglRegister(t)
  \/ \E t \in PipelineThreads : CallCreatePipelineLayout(t)
  \/ \E t \in PipelineThreads : PlLockBgl(t)
  \/ \E t \in PipelineThreads : PlLockDevice(t)
  \/ \E t \in PipelineThreads : PlRegister(t)

SpecCreate == InitPipe /\ [][NextCreate]_vars

\* Command recording and submission on two threads next to a third thread
\* that creates state objects and bind-group layouts.
StateThreads == {"t3"}

NextMixed ==
  \/ NextCmd
  \/ \E t \in StateThreads : CallCreateBlendState(t)
  \/ \E t \in StateThreads : BsRegister(t)
  \/ \E t \in StateThreads : CallCreateDepthStencilState(t)
  \/ \E t \in StateThreads : DssRegister(t)
  \/ \E t \in StateThreads : CallCreateAttachmentState(t)
  \/ \E t \in StateThreads : AsRegister(t)
  \/ \E t \in StateThreads : CallCreateBindGroupLayout(t)
  \/ \E t \in StateThreads : BglLock(t)
  \/ \E t \in StateThreads : BglRegister(t)

SpecMixed == Init /\ [][NextMixed]_vars

----
\* Command-buffer lifecycle properties (SpecCmd)

BufferIds == 1..(MaxCalls + 1)

InRegistry(b) == Cardinality({e \in items["command_buffer"] : e.val = b})

InPool(b) == IF b \in com_allocator.available THEN 1 ELSE 0

InPending(b) == IF b \in com_allocator.pending THEN 1 ELSE 0

InTransit(b) == Cardinality({t \in Threads : call[t].cmd_buf = b})

\* C3: a command buffer that was submitted and whose submission the backend
\* has not completed is not handed out by allocate and is not Recording: it
\* is in no create_command_buffer call's hands, not in the command-buffer
\* registry, and not in the allocator's pool of available buffers.
C3_NoReuseWhileInFlight ==
  \A b \in InFlight :
    /\ InRegistry(b) = 0
    /\ b \notin com_allocator.available
    /\ \A t \in Threads :
         call[t].op = "create_command_buffer" => call[t].cmd_buf # b

\* An allocate has run while a submitted buffer was still executing.
C3_Witness ==
  \E t \in Threads :
    /\ pc[t] = "cb_register"
    /\ InFlight # {}
    /\ InFlight \subseteq com_allocator.pending

\* C4: queue_submit handles its handles in the given order, and for each one
\* takes it from the registry, then submits it to the queue, then hands it to
\* the allocator, all before it starts on the next handle; the queue receives
\* the buffers in the order of the handles.
C4_SubmitInOrder ==
  \A t \in Threads :
    call[t].op = "queue_submit" =>
      LET c == call[t]
          k == Len(c.took)
      IN  /\ \A j \in 1..k : c.took[j][1] = c.ids[j]
          /\ pc[t] = "qs_take" => k = c.i - 1 /\ c.nsub = k /\ c.nhand = k
          /\ pc[t] = "qs_submit_raw" =>
               k = c.i /\ c.nsub = k - 1 /\ c.nhand = k - 1
          /\ pc[t] = "qs_alloc_submit" =>
               k = c.i /\ c.nsub = k /\ c.nhand = k - 1
          /\ pc[t] = "done" /\ c.outcome = "ok" =>
               k = Len(c.ids) /\ c.nsub = k /\ c.nhand = k
          /\ Running(t) =>
               /\ c.nsub <= Len(hwLog)
               /\ \A j \in 1..c.nsub :
                    hwLog[Len(hwLog) - c.nsub + j] = c.took[j][2]

\* A submit of two different command buffers has completed.
C4_Witness ==
  \E t \in Threads :
    /\ call[t].op = "queue_submit"
    /\ pc[t] = "done"
    /\ call[t].outcome = "ok"
    /\ Len(call[t].ids) = 2
    /\ call[t].ids[1] # call[t].ids[2]
    /\ call[t].nhand = 2

\* C5: a command buffer never has two owners among the allocator pool, the
\* command-buffer registry and the in-flight bookkeeping; it has exactly one
\* of them unless the call that is moving it holds it, and then none.
C5_SingleOwner ==
  \A b \in BufferIds :
    LET n == InRegistry(b) + InPool(b) + InPending(b)
    IN  /\ n <= 1
        /\ InTransit(b) <= 1
        /\ InTransit(b) = 1 => n = 0
        /\ b <= com_allocator.created /\ InTransit(b) = 0 => n = 1
        /\ b > com_allocator.created => n = 0 /\ InTransit(b) = 0

\* One buffer is Recording in the registry while another one is in flight.
C5_Witness ==
  /\ \E b \in BufferIds : InRegistry(b) = 1
  /\ \E b \in BufferIds : InPending(b) = 1
  /\ \A t \in Threads : ~Running(t)

\* C6: live entries of one registry have pairwise different handles, the
\* handle a creation call returns is the one of the entry it registered, and
\* two calls whose registered objects are both live returned different
\* handles.
C6_UniqueHandles ==
  /\ \A r \in Registries : \A e1, e2 \in items[r] : e1.id = e2.id => e1 = e2
  /\ \A t \in Threads : \A x \in call[t].registered :
       \A e \in items[x[1]] : e.serial = x[2] => e.id = call[t].handle
  /\ \A t1, t2 \in Threads : \A x1 \in call[t1].registered :
       \A x2 \in call[t2].registered :
         /\ t1 # t2
         /\ x1[1] = x2[1]
         /\ \E e \in items[x1[1]] : e.serial = x1[2]
         /\ \E e \in items[x2[1]] : e.serial = x2[2]
         => call[t1].handle # call[t2].handle

\* Two calls have each registered a command buffer and both are live.
C6_Witness ==
  \E t1, t2 \in Threads :
    /\ t1 # t2
    /\ call[t1].registered # {} /\ call[t2].registered # {}
    /\ call[t1].op = "create_command_buffer"
    /\ call[t2].op = "create_command_buffer"
    /\ Cardinality(items["command_buffer"]) = 2

\* C7: a handle that was taken is never live again and is never taken a
\* second time; what a take hands to queue_submit for a handle is the entry
\* stored under that handle; and the value found under a handle, live or
\* taken, is the one the call that returned the handle registered.
C7_TakenNeverValid ==
  /\ \A t \in Threads :
       call[t].op = "create_command_buffer" /\ call[t].outcome = "ok" =>
         /\ \A e \in items["command_buffer"] :
              e.id = call[t].handle => e.val = call[t].vals[1]
         /\ \A k \in 1..Len(takenLog["command_buffer"]) :
              takenLog["command_buffer"][k].id = call[t].handle =>
                takenLog["command_buffer"][k].val = call[t].vals[1]
  /\ \A r \in Registries : \A k \in 1..Len(takenLog[r]) :
       ~Live(r, takenLog[r][k].id)
  /\ \A r \in Registries : \A j, k \in 1..Len(takenLog[r]) :
       takenLog[r][j].id = takenLog[r][k].id => j = k
  /\ \A t \in Threads : \A j \in 1..Len(call[t].took) :
       \E k \in 1..Len(takenLog["command_buffer"]) :
         /\ takenLog["command_buffer"][k].id = call[t].took[j][1]
         /\ takenLog["command_buffer"][k].val = call[t].took[j][2]

\* A submit was given a handle that an earlier take had removed, and ended
\* at that handle.
C7_Witness ==
  \E t \in Threads :
    /\ call[t].op = "queue_submit"
    /\ pc[t] = "done"
    /\ call[t].outcome = "fatal"
    /\ Live("device", call[t].device_id)
    /\ \E k \in 1..Len(takenLog["command_buffer"]) :
         takenLog["command_buffer"][k].id = call[t].ids[call[t].i]

\* C8: command buffers that were allocated and not yet submitted are pairwise
\* different objects: no two create_command_buffer calls hold the same one,
\* and none holds one that is registered.
C8_DistinctAllocations ==
  /\ \A b \in BufferIds : InRegistry(b) <= 1
  /\ \A t \in Threads :
       call[t].op = "create_command_buffer" /\ call[t].cmd_buf # 0 =>
         /\ InRegistry(call[t].cmd_buf) = 0
         /\ \A u \in Threads :
              u # t /\ call[u].op = "create_command_buffer" =>
                call[u].cmd_buf # call[t].cmd_buf

\* One call has allocated a buffer while an earlier allocation is still
\* Recording and a further call waits for the device.
C8_Witness ==
  \E t, u \in Threads :
    /\ pc[t] = "cb_register"
    /\ pc[u] = "cb_get_mut"
    /\ items["command_buffer"] # {}

----
\* Lock-order properties (SpecLayout)

\* C1: no call acquires the device registry lock while it holds the lock of
\* a dependent-resource registry.
C1_DeviceLockFirst ==
  \A t \in Threads : \A j, k \in 1..Len(held[t]) :
    j < k /\ held[t][k][1] = "device" => held[t][j][1] = "device"

\* C2: no reachable state is a deadlock: whenever some call is in progress,
\* some call in progress can take its next step.
C2_NoDeadlock ==
  (\E t \in Threads : Running(t)) =>
    \E t \in Threads : Running(t) /\ CanAcquire(Wants(t))

----
\* Creation failures (SpecPipe)

HasBackendError(t) ==
  \E k \in 1..Len(call[t].backend) : call[t].backend[k][2] = "Err"

\* C9: a call whose backend creation call failed ends fatally, has registered
\* nothing and returns no handle, and the step on which a call ends fatally
\* leaves every registry as it was.
C9_FailedCreationRegistersNothing ==
  /\ [](\A t \in Threads :
          HasBackendError(t) =>
            /\ pc[t] = "done"
            /\ call[t].outcome = "fatal"
            /\ call[t].registered = {}
            /\ call[t].handle = 0)
  /\ [][\A t \in Threads :
          call[t].outcome = "running" /\ call'[t].outcome = "fatal" =>
            items' = items /\ nextId' = nextId]_vars

\* A shader-module creation and a render-pipeline creation have both failed
\* in the backend, the latter after its render pass was built.
C9_Witness ==
  \E t, u \in Threads :
    /\ call[t].op = "create_shader_module"
    /\ HasBackendError(t)
    /\ call[u].op = "create_render_pipeline"
    /\ HasBackendError(u)
    /\ Len(call[u].backend) = 2

\* C10: a render-pipeline creation whose stages include one tagged Compute
\* never gets past the loop over its stages: it makes no backend call, it
\* registers nothing, it returns no handle, and it ends fatally.
C10_ComputeStageRejected ==
  \A t \in Threads :
    /\ call[t].op = "create_render_pipeline"
    /\ \E k \in 1..Len(call[t].stages) : call[t].stages[k] = "Compute"
    => /\ call[t].backend = <<>>
       /\ call[t].registered = {}
       /\ call[t].handle = 0
       /\ pc[t] \in {"rp_lock_device", "rp_lock_layout", "rp_lock_shaders",
                     "done"}
       /\ pc[t] = "done" => call[t].outcome = "fatal"

\* A call ended at a Compute stage that came second, after a Vertex stage,
\* both with live shader modules.
C10_Witness ==
  \E t \in Threads :
    /\ call[t].op = "create_render_pipeline"
    /\ pc[t] = "done"
    /\ call[t].outcome = "fatal"
    /\ Len(call[t].stages) = 2
    /\ call[t].stages[1] = "Vertex"
    /\ call[t].stages[2] = "Compute"
    /\ call[t].i = 2
    /\ Live("shader_module", call[t].desc.modules[2])

----
\* Render-pipeline dependencies (SpecPipe)

\* The positions of a render-pipeline creation at which the objects of
\* registry r have been looked up and the call has not yet returned.
RpAfter(r) ==
  CASE r = "pipeline_layout" ->
         {"rp_lock_shaders", "rp_lock_blend", "rp_lock_depth",
          "rp_lock_attachment", "rp_register"}
    [] r = "shader_module" ->
         {"rp_lock_blend", "rp_lock_depth", "rp_lock_attachment",
          "rp_register"}
    [] r = "blend_state" ->
         {"rp_lock_depth", "rp_lock_attachment", "rp_register"}
    [] r = "depth_stencil_state" -> {"rp_lock_attachment", "rp_register"}
    [] r = "attachment_state" -> {"rp_register"}
    [] OTHER -> {}

RpDependents ==
  {"pipeline_layout", "shader_module", "blend_state", "depth_stencil_state",
   "attachment_state"}

LookedUp(t, r) ==
  call[t].op = "create_render_pipeline" /\ pc[t] \in RpAfter(r)

\* The handles of registry r that a render-pipeline creation looked up.
RpHandles(t, r) ==
  LET d == call[t].desc
  IN  CASE r = "pipeline_layout" -> {d.layout}
        [] r = "shader_module" -> {d.modules[k] : k \in 1..Len(d.modules)}
        [] r = "blend_state" ->
             {d.blend_state[k] : k \in 1..Len(d.blend_state)}
        [] r = "depth_stencil_state" -> {d.depth_stencil_state}
        [] r = "attachment_state" -> {d.attachment_state}
        [] OTHER -> {}

\* The parts of the pipeline are the objects now live under its handles.
PartsAreLive(t) ==
  LET d == call[t].desc
      q == call[t].parts
  IN  /\ LookedUp(t, "pipeline_layout") =>
           q.layout = Get("pipeline_layout", d.layout)
      /\ LookedUp(t, "shader_module") =>
           /\ q.vertex \in {Get("shader_module", h) :
                              h \in RpHandles(t, "shader_module")}
           /\ q.fragment \in {NoModule} \cup
                {Get("shader_module", h) : h \in RpHandles(t, "shader_module")}
      /\ LookedUp(t, "blend_state") =>
           /\ Len(q.targets) = Len(d.blend_state)
           /\ \A k \in 1..Len(q.targets) :
                q.targets[k] = Get("blend_state", d.blend_state[k])
      /\ LookedUp(t, "depth_stencil_state") =>
           q.depth_stencil = Get("depth_stencil_state", d.depth_stencil_state)
      /\ LookedUp(t, "attachment_state") =>
           q.attachments = Get("attachment_state", d.attachment_state)

\* C11: from the lookup of a dependent registry until the render-pipeline
\* creation returns, the call holds that registry's read guard, every handle
\* it looked up there is live, the parts it collected are the objects under
\* those handles, and no step of any thread changes that registry; the
\* pipeline that gets registered is made of the parts collected.
C11_DependenciesPinned ==
  /\ [](\A t \in Threads :
          /\ \A r \in RpDependents :
               LookedUp(t, r) =>
                 /\ Holds(t, r, "R")
                 /\ \A h \in RpHandles(t, r) : Live(r, h)
          /\ PartsAreLive(t)
          /\ (call[t].op = "create_render_pipeline" /\ call[t].outcome = "ok")
               => /\ Live("render_pipeline", call[t].handle)
                  /\ Get("render_pipeline", call[t].handle) =
                       <<"render_pipeline", call[t].parts>>)
  /\ [][\A t \in Threads : \A r \in RpDependents :
          LookedUp(t, r) => items'[r] = items[r]]_vars

\* A render pipeline has been compiled and is about to be registered while
\* another thread's new shader module waits for the shader-module registry.
C11_Witness ==
  \E t, u \in Threads :
    /\ call[t].op = "create_render_pipeline"
    /\ pc[t] = "rp_register"
    /\ Len(call[t].backend) = 2
    /\ pc[u] = "sm_register"
    /\ ~CanWrite("shader_module")

----
\* Creation calls (SpecCreate)

\* The registry a creation call registers its result into.
OutputRegistry(op) ==
  CASE op = "create_bind_group_layout" -> "bind_group_layout"
    [] op = "create_pipeline_layout" -> "pipeline_layout"
    [] op = "create_blend_state" -> "blend_state"
    [] op = "create_depth_stencil_state" -> "depth_stencil_state"
    [] op = "create_attachment_state" -> "attachment_state"
    [] op = "create_shader_module" -> "shader_module"
    [] op = "create_render_pipeline" -> "render_pipeline"
    [] op = "create_command_buffer" -> "command_buffer"
    [] OTHER -> "none"

SimpleCreations ==
  {"create_bind_group_layout", "create_pipeline_layout",
   "create_blend_state", "create_depth_stencil_state",
   "create_attachment_state", "create_shader_module"}

\* C12: the step on which a bind-group-layout, pipeline-layout, blend-state,
\* depth-stencil-state, attachment-state or shader-module creation succeeds
\* adds exactly one entry to the output registry of its kind and changes no
\* other registry; every other step of such a call changes no registry; and
\* the call has registered that one entry if it succeeded, none otherwise.
C12_OneEntryOneRegistry ==
  /\ [](\A t \in Threads :
          call[t].op \in SimpleCreations =>
            IF call[t].outcome = "ok"
            THEN /\ call[t].registered =
                      {<<OutputRegistry(call[t].op), call[t].handle>>}
                 /\ Live(OutputRegistry(call[t].op), call[t].handle)
            ELSE call[t].registered = {})
  /\ [][\A t \in Threads :
          pc'[t] # pc[t] /\ call'[t].op \in SimpleCreations =>
            IF call[t].outcome = "running" /\ call'[t].outcome = "ok"
            THEN LET out == OutputRegistry(call[t].op)
                 IN  /\ \A r \in Registries \ {out} : items'[r] = items[r]
                     /\ items[out] \subseteq items'[out]
                     /\ Cardinality(items'[out] \ items[out]) = 1
            ELSE items' = items]_vars

\* A pipeline layout made of one bind-group layout and a depth-stencil state
\* have both been created.
C12_Witness ==
  \E t, u \in Threads :
    /\ call[t].op = "create_pipeline_layout"
    /\ call[t].outcome = "ok"
    /\ Len(call[t].ids) = 1
    /\ call[u].op = "create_depth_stencil_state"
    /\ call[u].outcome = "ok"

----
\* Locks and device access of the command path (SpecCmd, SpecMixed)

\* C13: a thread that is not inside an entry point holds no registry lock,
\* whether its last call returned normally or ended fatally; so a call
\* starts with no lock held, and when no call is in progress every registry
\* is unlocked.
C13_NoLockAfterReturn ==
  /\ \A t \in Threads :
       pc[t] \in {"idle", "done", "cb_get_mut", "qs_get_mut"} =>
         held[t] = <<>>
  /\ (\A t \in Threads : ~Running(t)) =>
       \A r \in Registries : Readers(r) = {} /\ Writers(r) = {}

\* A create_command_buffer call and a queue_submit call that submitted a
\* buffer have both returned, and no call is in progress.
C13_Witness ==
  /\ \A t \in Threads : ~Running(t)
  /\ \E t, u \in Threads :
       /\ call[t].op = "create_command_buffer"
       /\ call[t].outcome = "ok"
       /\ call[u].op = "queue_submit"
       /\ call[u].outcome = "ok"
       /\ call[u].nhand >= 1

\* C14: a step that changes the command allocator or the hardware queue is
\* taken by a thread that has exclusive access to the device (it holds the
\* write guard, or get_mut grants it on that very step) while no other thread
\* holds any guard of the device registry; and the device never has two
\* writers, or a writer next to a reader.
C14_MutationUnderExclusiveAccess ==
  /\ [](/\ Cardinality(Writers("device")) <= 1
        /\ Writers("device") # {} => Readers("device") = {})
  /\ [][(com_allocator' # com_allocator \/ hwLog' # hwLog) =>
          \E t \in Threads :
            /\ pc'[t] # pc[t]
            /\ Holds(t, "device", "W") \/ Holds(t, "device", "W")'
            /\ \A u \in Threads \ {t} :
                 /\ ~Holds(u, "device", "W") /\ ~Holds(u, "device", "R")
                 /\ ~Holds(u, "device", "W")' /\ ~Holds(u, "device", "R")']_vars

\* A create_command_buffer call has allocated its buffer and still has the
\* device, while a queue_submit and a bind-group-layout creation wait for it.
C14_Witness ==
  \E t, u, v \in Threads :
    /\ pc[t] = "cb_register"
    /\ Holds(t, "device", "W")
    /\ call[t].cmd_buf # 0
    /\ pc[u] = "qs_get_mut"
    /\ pc[v] = "bgl_lock"
    /\ ~CanRead("device")

----
\* Lock discipline of the creation calls (SpecCreate)

IsPrefix(a, b) ==
  Len(a) <= Len(b) /\ \A k \in 1..Len(a) : a[k] = b[k]

\* C15: a creation call holds at most one guard per registry and every one
\* of them is a read guard; it keeps each guard until it ends (its guards
\* only grow, then all go at once), so no registry is locked a second time;
\* a pipeline-layout creation has all its bind-group layouts, and a
\* render-pipeline creation all its dependencies, read under those guards by
\* the time it makes a backend call.
C15_OneReadLockPerDependent ==
  /\ [](\A t \in Threads :
          /\ \A j, k \in 1..Len(held[t]) :
               held[t][j][1] = held[t][k][1] => j = k
          /\ \A k \in 1..Len(held[t]) : held[t][k][2] = "R"
          /\ pc[t] \in {"pl_lock_device", "pl_register"} =>
               /\ Holds(t, "bind_group_layout", "R")
               /\ Len(call[t].vals) = Len(call[t].ids)
          /\ (call[t].op = "create_pipeline_layout" /\ call[t].backend # <<>>)
               => pc[t] \in {"pl_register", "done"}
          /\ (call[t].op = "create_render_pipeline" /\ call[t].backend # <<>>
              /\ Running(t)) =>
               \A r \in RpDependents : LookedUp(t, r) /\ Holds(t, r, "R"))
  /\ [][\A t \in Threads :
          \/ IsPrefix(held[t], held'[t])
          \/ held'[t] = <<>> /\ pc'[t] = "done"]_vars

\* A render-pipeline creation with a colour target has made its backend
\* calls and holds the read guards of the device and of its five dependent
\* registries, each once.
C15_Witness ==
  \E t \in Threads :
    /\ call[t].op = "create_render_pipeline"
    /\ pc[t] = "rp_register"
    /\ Len(call[t].desc.blend_state) >= 1
    /\ Len(held[t]) = 6

----
\* Backend calls of the creation calls (SpecCreate)

Creations == SimpleCreations \cup {"create_render_pipeline"}

RegisterSteps ==
  {"bgl_register", "pl_register", "bs_register", "dss_register",
   "as_register", "sm_register", "rp_register"}

\* The backend creation calls a call has made, in order.
BackendNames(t) == [k \in 1..Len(call[t].backend) |-> call[t].backend[k][1]]

\* The backend creation calls each entry point makes before its register.
ExpectedBackend(op) ==
  CASE op = "create_bind_group_layout" -> <<"create_descriptor_set_layout">>
    [] op = "create_pipeline_layout" -> <<"create_pipeline_layout">>
    [] op = "create_shader_module" -> <<"create_shader_module">>
    [] op = "create_render_pipeline" ->
         <<"create_render_pass", "create_graphics_pipeline">>
    [] OTHER -> <<>>

\* C16 as stated: every creation call that has registered its result made
\* exactly one backend creation call.
C16_ExactlyOneBackendCall ==
  \A t \in Threads :
    call[t].op \in Creations /\ call[t].outcome = "ok" =>
      Len(call[t].backend) = 1

\* C16, amended: a creation call that is about to register or has registered
\* its result has made all its backend creation calls, and they are: one for
\* a bind-group layout, a pipeline layout and a shader module; none for a
\* blend state, a depth-stencil state and an attachment state; two for a
\* render pipeline, the render pass and then the graphics pipeline.
C16_BackendCallsPerKind ==
  \A t \in Threads :
    /\ call[t].op \in Creations
    /\ pc[t] \in RegisterSteps \/ call[t].outcome = "ok"
    => /\ BackendNames(t) = ExpectedBackend(call[t].op)
       /\ call[t].registered # {} => call[t].outcome = "ok"

\* A render pipeline and a blend state have both been created.
C16_Witness ==
  \E t, u \in Threads :
    /\ call[t].op = "create_render_pipeline"
    /\ call[t].outcome = "ok"
    /\ call[u].op = "create_blend_state"
    /\ call[u].outcome = "ok"

----
\* The submission loop (SpecCmd)

InLoop(t) ==
  /\ call[t].op = "queue_submit"
  /\ pc[t] \in {"qs_take", "qs_submit_raw", "qs_alloc_submit"}

\* C17: while a queue_submit call is in its loop it has exclusive access to
\* the device, no other call is in its loop or between its allocate and its
\* return, the buffers it has passed to the queue so far are the last ones
\* the queue received, in the call's order, and every step that changes the
\* queue or the command allocator is a step of that call.
C17_SubmitLoopIsExclusive ==
  /\ [](\A t \in Threads :
          InLoop(t) =>
            /\ Holds(t, "device", "W")
            /\ \A u \in Threads \ {t} : ~InLoop(u) /\ pc[u] # "cb_register"
            /\ call[t].nsub <= Len(hwLog)
            /\ \A k \in 1..call[t].nsub :
                 hwLog[Len(hwLog) - call[t].nsub + k] = call[t].took[k][2])
  /\ [][\A t \in Threads :
          InLoop(t) /\ (hwLog' # hwLog \/ com_allocator' # com_allocator)
            => pc'[t] # pc[t]]_vars

\* A queue_submit call is between its first and its second buffer while a
\* create_command_buffer call on a live device waits for the device.
C17_Witness ==
  \E t, u \in Threads :
    /\ InLoop(t)
    /\ pc[t] = "qs_take"
    /\ call[t].i = 2
    /\ call[t].nhand = 1
    /\ pc[u] = "cb_get_mut"
    /\ Live("device", call[u].device_id)

\* C18: a queue_submit call works through its handles one at a time: at
\* the top of the loop it has taken exactly the handles before the current
\* position. The step on which it ends fatally is at a handle that names no
\* live command buffer, and it changes no registry, neither the queue nor the
\* allocator; the call then has removed, submitted and handed to the
\* allocator exactly the buffers of the handles before that position, which
\* are no longer live, and nothing of the handles from that position on.
C18_SubmitStopsAtBadHandle ==
  /\ [](\A t \in Threads :
          call[t].op = "queue_submit" =>
            /\ pc[t] = "qs_take" => Len(call[t].took) = call[t].i - 1
            /\ call[t].outcome = "fatal" =>
                 /\ Len(call[t].took) = call[t].i - 1
                 /\ call[t].nsub = call[t].i - 1
                 /\ call[t].nhand = call[t].i - 1
                 /\ \A j \in 1..(call[t].i - 1) :
                      /\ call[t].took[j][1] = call[t].ids[j]
                      /\ ~Live("command_buffer", call[t].ids[j])
                      /\ \E n \in 1..Len(hwLog) :
                           hwLog[n] = call[t].took[j][2])
  /\ [][\A t \in Threads :
          /\ call[t].op = "queue_submit"
          /\ pc[t] = "qs_take"
          /\ call'[t].outcome = "fatal"
          => /\ ~Live("command_buffer", call[t].ids[call[t].i])
             /\ items' = items
             /\ hwLog' = hwLog
             /\ com_allocator' = com_allocator
             /\ call'[t].took = call[t].took
             /\ call'[t].i = call[t].i]_vars

\* A queue_submit call ended at its second handle, after the buffer of its
\* first handle went to the queue and to the allocator.
C18_Witness ==
  \E t \in Threads :
    /\ call[t].op = "queue_submit"
    /\ call[t].outcome = "fatal"
    /\ call[t].i = 2
    /\ call[t].nhand = 1
    /\ Len(hwLog) >= 1

----
\* State-object creation next to the command path (SpecMixed)

StateCreations ==
  {"create_blend_state", "create_depth_stencil_state",
   "create_attachment_state"}

\* C19: a blend-state, depth-stencil-state or attachment-state creation
\* never holds a guard, never waits for the device registry, can take its
\* next step in every state, whoever holds the device, and never ends
\* fatally: once it is done it has registered its entry, also when its
\* device handle names no live device.
C19_StateCreationIgnoresDevice ==
  \A t \in Threads :
    call[t].op \in StateCreations =>
      /\ held[t] = <<>>
      /\ Wants(t)[1] # "device"
      /\ Running(t) =>
           ENABLED (BsRegister(t) \/ DssRegister(t) \/ AsRegister(t))
      /\ call[t].outcome # "fatal"
      /\ pc[t] = "done" =>
           /\ call[t].outcome = "ok"
           /\ call[t].registered =
                {<<OutputRegistry(call[t].op), call[t].handle>>}
           /\ Live(OutputRegistry(call[t].op), call[t].handle)

\* A blend state was created with a device handle that names no device,
\* and a queue_submit call is in its loop, with exclusive access to the
\* device.
C19_Witness ==
  \E t, u \in Threads :
    /\ call[t].op = "create_blend_state"
    /\ call[t].outcome = "ok"
    /\ ~Live("device", call[t].device_id)
    /\ InLoop(u)
    /\ Holds(u, "device", "W")

----
\* Shader stages of a render pipeline (SpecPipe)

HasStage(t, tag) ==
  \E k \in 1..Len(call[t].stages) : call[t].stages[k] = tag

\* The entry point is the module of stage k, for every k that is the last
\* stage with the tag, and is absent if no stage has the tag.
EntryIsLastOf(t, tag, entry) ==
  /\ ~HasStage(t, tag) => entry = NoModule
  /\ \A k \in 1..Len(call[t].stages) :
       /\ call[t].stages[k] = tag
       /\ \A j \in (k + 1)..Len(call[t].stages) : call[t].stages[j] # tag
       => entry = Get("shader_module", call[t].desc.modules[k])

\* C20: a render-pipeline creation without a Vertex stage never gets past
\* its stages: it makes no backend call, registers nothing and ends fatally.
\* One that got past its stages has as vertex entry point the module of its
\* last Vertex stage and as fragment entry point the module of its last
\* Fragment stage, or none if it has no Fragment stage.
C20_VertexRequiredLastTagWins ==
  \A t \in Threads :
    call[t].op = "create_render_pipeline" =>
      /\ ~HasStage(t, "Vertex") =>
           /\ call[t].backend = <<>>
           /\ call[t].registered = {}
           /\ call[t].handle = 0
           /\ pc[t] \in {"rp_lock_device", "rp_lock_layout",
                         "rp_lock_shaders", "done"}
           /\ pc[t] = "done" => call[t].outcome = "fatal"
      /\ LookedUp(t, "shader_module") \/ call[t].outcome = "ok" =>
           /\ HasStage(t, "Vertex")
           /\ EntryIsLastOf(t, "Vertex", call[t].parts.vertex)
           /\ EntryIsLastOf(t, "Fragment", call[t].parts.fragment)

\* A render pipeline was created from two Vertex stages with two different
\* shader modules and no Fragment stage.
C20_Witness ==
  \E t \in Threads :
    /\ call[t].op = "create_render_pipeline"
    /\ call[t].outcome = "ok"
    /\ call[t].stages = <<"Vertex", "Vertex">>
    /\ Get("shader_module", call[t].desc.modules[1]) #
         Get("shader_module", call[t].desc.modules[2])

====
